---- MODULE Spec2Model ----
(***************************************************************************)
(* Model of cli_runner/claude_code.py: ClaudeCodeRunner.run_claude_code    *)
(* (the retry loop), _run_claude_instance (command construction, the       *)
(* continuation fallback and the validation of a sub-attempt), the nested  *)
(* _run_and_stream (subprocess launch, gather of the two drain tasks, wait *)
(* for exit), and the two drain coroutines _stream_stdout_handler and      *)
(* _stream_stderr_handler.  The subprocess is the environment: it writes   *)
(* lines to its stdout pipe and chunks to its stderr pipe and exits.       *)
(***************************************************************************)
EXTENDS Integers, Sequences, FiniteSets, TLC

(* ------------------------------ bounds --------------------------------- *)
MaxRetries == 2
MaxLines == 1
MaxLinesStream == 2
PipeCap == 1
MaxErrChunks == 1
MaxLinesLive == 3

(* ------------------------------ values --------------------------------- *)
\* One stdout line as the handler sees it.  kind:
\*   "obj"      a JSON object (a dict after json.loads)
\*   "nonobj"   valid JSON that is not an object (a list, a number, null)
\*   "nonjson"  text json.loads rejects
\*   "blank"    only whitespace: the empty string after strip()
\*   "badutf8"  bytes that bytes.decode("utf-8") rejects
\* For an object, type is its "type" field, shape = "bad" marks a "message"
\* field that is not a dict, and is_error / subtype / result are the fields
\* of a result record ("absent" when the key is missing).
Line(kind, type, shape, is_error, subtype, result) ==
    [kind |-> kind, type |-> type, shape |-> shape,
     is_error |-> is_error, subtype |-> subtype, result |-> result]

Raw(kind) == Line(kind, "absent", "ok", "absent", "absent", "absent")
Msg(type, shape) == Line("obj", type, shape, "absent", "absent", "absent")
Result(is_error, subtype, result) ==
    Line("obj", "result", "ok", is_error, subtype, result)

\* Python's None, for Optional[dict] values
None == Raw("None")

\* lines of the retry-loop specification
RetryLines ==
    { Msg("system", "ok"), Raw("nonjson"),
      Result("false", "success", "A"), Result("true", "success", "A"),
      Result("false", "error_max_turns", "A") }

\* lines of the stream-handler specification
StreamLines ==
    { Msg("system", "ok"), Msg("assistant", "bad"), Msg("user", "ok"),
      Raw("nonobj"), Raw("nonjson"), Raw("blank"), Raw("badutf8"),
      Result("false", "success", "A"), Result("false", "success", "B") }

\* lines of the result-validation specification: result records with and
\* without the is_error key, and a line that makes the handler raise
ResultLines ==
    { Raw("nonjson"),
      Result("false", "success", "A"), Result("false", "success", "B"),
      Result("absent", "success", "A"), Result("true", "success", "A"),
      Result("false", "error_max_turns", "A") }

\* lines of the progress specification
LiveLines ==
    { Msg("system", "ok"), Raw("nonjson"), Result("false", "success", "A") }

\* stderr is a sequence of chunks; "marker" is text that contains
\* "No prior conversation history found", "other" is any other text
ErrChunks == {"marker", "other"}

\* exceptions; the fields a message does not use keep their defaults, and
\* "at" tells exception objects apart by the attempt (1, 2, ...) that raised
\* them (0: raised outside any attempt)
Exc(etype, message, code, err, n, result_data) ==
    [etype |-> etype, message |-> message, return_code |-> code,
     stderr |-> err, n |-> n, result_data |-> result_data, at |-> 0]

RaisedAt(e, a) == [e EXCEPT !.at = a]

NoExc == Exc("None", "", -1, <<>>, 0, None)

\* class ClaudeProcessError(Exception): message and result_data=None
ClaudeProcessError(message, code, err, n, result_data) ==
    Exc("ClaudeProcessError", message, code, err, n, result_data)

OSError == Exc("OSError", "", -1, <<>>, 0, None)
CancelledError == Exc("CancelledError", "", -1, <<>>, 0, None)
UnboundLocalError == Exc("UnboundLocalError", "log_error", -1, <<>>, 0, None)
UnicodeDecodeError == Exc("UnicodeDecodeError", "utf-8", -1, <<>>, 0, None)

\* mutant: except Exception
RetryableAny(e) == e.etype # "CancelledError"

\* except (ClaudeProcessError, OSError)
Retryable(e) == e.etype \in {"ClaudeProcessError", "OSError"}

Max(a, b) == IF a >= b THEN a ELSE b

\* __init__: self._retries = max(0, retries)
init_retries(r) == Max(0, r)

\* mutant: the exponent counts attempts from zero
wait_time_from_zero(a) == 2 ^ (a - 1)

\* wait_time = 2**attempt
wait_time(a) == 2 ^ a

(* --------------------------- command line ------------------------------ *)
Permissions == {"read_only", "full_access"}

\* ",".join(self._get_allowed_tools())
get_allowed_tools(p) ==
    IF p = "read_only"
    THEN "Read,LS,Glob,Grep,WebFetch,WebSearch,Bash,TodoRead,Agent"
    ELSE IF p = "full_access"
    THEN "Read,LS,Glob,Grep,Write,Edit,MultiEdit,Bash,NotebookRead,NotebookEdit,TodoRead,TodoWrite,WebFetch,WebSearch,Agent"
    ELSE ""

cmd_base(p) ==
    LET base == <<"claude", "-p", "prompt", "--output-format", "stream-json",
                  "--model", "model", "--verbose", "--allowedTools",
                  get_allowed_tools(p)>>
    IN  IF p = "full_access"
        THEN Append(base, "--dangerously-skip-permissions")
        ELSE base

\* mutant: the continuation flag is appended to cmd_base
cmd_with_c_appended(p) == Append(cmd_base(p), "-c")

cmd_with_c(p) == <<"claude", "-c">> \o Tail(cmd_base(p))

(* ------------------------------- state --------------------------------- *)
VARIABLES
    retries,                \* the constructor's retries argument
    self_retries,           \* self._retries
    permissions,            \* self._permissions
    continue_conversation,  \* argument of run_claude_code
    pc,                     \* position of run_claude_code
    attempt,                \* loop variable of run_claude_code
    last_exception,         \* run_claude_code's last_exception
    outcome,                \* what run_claude_code returned or raised
    sleeps,                 \* history: the durations of the sleeps taken
    started,                \* history: number of attempts started
    failed,                 \* history: number of attempts that failed
    launches,               \* argument vectors handed to exec in this attempt
    sub,                    \* which sub-attempt _run_claude_instance is in
    proc,                   \* the subprocess of the current sub-attempt
    stdoutBuf,              \* lines written to stdout and not yet read
    stderrBuf,              \* chunks written to stderr and not yet read
    stdout_task,            \* the task running _stream_stdout_handler
    stderr_task,            \* the task running _stream_stderr_handler
    consumed,               \* lines the stdout handler has read
    log,                    \* log events of the stdout handler
    returned                \* (return_code, stderr, result_obj) of _run_and_stream

vars == <<retries, self_retries, permissions, continue_conversation, pc,
          attempt, last_exception, outcome, sleeps, started, failed,
          launches, sub, proc, stdoutBuf, stderrBuf, stdout_task, stderr_task, consumed, log,
          returned>>

config == <<retries, self_retries, permissions, continue_conversation>>
streams == <<stdoutBuf, stderrBuf, stdout_task, stderr_task, consumed, log>>
history == <<sleeps, started, failed>>

\* a subprocess: state is "none", "running", "closed" (it has closed its ends
\* of both pipes and runs on) or "exited"
NoProc == [state |-> "none", returncode |-> -1, signaled |-> FALSE]

\* the subprocess has not exited
Alive == proc.state \in {"running", "closed"}

\* both pipes are at end of stream once their buffers are empty
PipesClosed == proc.state \in {"closed", "exited"}
NoOutcome == [kind |-> "none", value |-> "", exc |-> NoExc, cause |-> NoExc]
NoReturn == [return_code |-> -1, stderr |-> <<>>, result_obj |-> None]

\* a task: st is "none", "running", "done", "failed" or "cancelled"
NoStdoutTask == [st |-> "none", result |-> None, exc |-> NoExc, log_error |-> FALSE]
NoStderrTask == [st |-> "none", read |-> <<>>, result |-> <<>>]

\* ClaudeCodeRunner.__init__ followed by the arguments of one call
InitWith(retrySet, permSet, contSet) ==
    /\ retries \in retrySet
    /\ self_retries = init_retries(retries)
    /\ permissions \in permSet
    /\ continue_conversation \in contSet
    /\ pc = "idle"
    /\ attempt = 0
    /\ last_exception = NoExc
    /\ outcome = NoOutcome
    /\ sleeps = <<>>
    /\ started = 0
    /\ failed = 0
    /\ launches = <<>>
    /\ sub = "none"
    /\ proc = NoProc
    /\ stdoutBuf = <<>>
    /\ stderrBuf = <<>>
    /\ stdout_task = NoStdoutTask
    /\ stderr_task = NoStderrTask
    /\ consumed = <<>>
    /\ log = <<>>
    /\ returned = NoReturn

Init == InitWith(-1 .. MaxRetries, Permissions, BOOLEAN)

(* --------------------------- run_claude_code --------------------------- *)
\* an exception leaves run_claude_code
Raise(e, cause) ==
    /\ pc' = "done"
    /\ outcome' = [kind |-> "raised", value |-> "", exc |-> e, cause |-> cause]

\* mutant: last_exception keeps the first failure
ThrowKeepFirst(e) ==
    IF Retryable(e)
    THEN /\ last_exception' = IF last_exception = NoExc
                              THEN RaisedAt(e, attempt + 1)
                              ELSE last_exception
         /\ attempt' = attempt + 1
         /\ pc' = "loop"
         /\ failed' = failed + 1
         /\ UNCHANGED outcome
    ELSE /\ Raise(RaisedAt(e, attempt + 1), NoExc)
         /\ UNCHANGED <<last_exception, attempt, failed>>

\* an exception raised inside the try block of the retry loop
Throw(e) ==
    IF Retryable(e)
    THEN /\ last_exception' = RaisedAt(e, attempt + 1)
         /\ attempt' = attempt + 1
         /\ pc' = "loop"
         /\ failed' = failed + 1
         /\ UNCHANGED outcome
    ELSE /\ Raise(RaisedAt(e, attempt + 1), NoExc)
         /\ UNCHANGED <<last_exception, attempt, failed>>

\* entry of run_claude_code: last_exception = None
run_claude_code ==
    /\ pc = "idle"
    /\ pc' = "loop"
    /\ last_exception' = NoExc
    /\ UNCHANGED <<config, attempt, outcome, history, launches, sub, proc,
                   streams, returned>>

\* for attempt in range(self._retries + 1): ... and the raise after the loop
LoopNext ==
    /\ pc = "loop"
    /\ IF attempt < self_retries + 1
       THEN IF attempt > 0
            THEN /\ pc' = "sleep"
                 /\ sleeps' = Append(sleeps, wait_time(attempt))
                 /\ UNCHANGED outcome
            ELSE /\ pc' = "instance"
                 /\ UNCHANGED <<sleeps, outcome>>
       ELSE /\ Raise(ClaudeProcessError("All {} attempts to run Claude failed.",
                                        -1, <<>>, self_retries + 1, None),
                     last_exception)
            /\ UNCHANGED sleeps
    /\ UNCHANGED <<config, attempt, last_exception, started, failed, launches,
                   sub, proc, streams, returned>>

\* await asyncio.sleep(wait_time) returns
SleepReturn ==
    /\ pc = "sleep"
    /\ pc' = "instance"
    /\ UNCHANGED <<config, attempt, last_exception, outcome, history,
                   launches, sub, proc, streams, returned>>

(* ------------------------- _run_claude_instance ------------------------ *)
\* mutant: only the first attempt of a run uses the continuation flag
run_claude_instance_first_only ==
    /\ pc = "instance"
    /\ pc' = "launch"
    /\ sub' = IF continue_conversation /\ attempt = 0 THEN "continue" ELSE "plain"
    /\ started' = started + 1
    /\ launches' = <<>>
    /\ UNCHANGED <<config, attempt, last_exception, outcome, sleeps, failed,
                   proc, streams, returned>>

\* entry of _run_claude_instance: cmd_base is built, the first sub-attempt
\* is the continuation one iff continue_conversation
run_claude_instance ==
    /\ pc = "instance"
    /\ pc' = "launch"
    /\ sub' = IF continue_conversation THEN "continue" ELSE "plain"
    /\ started' = started + 1
    /\ launches' = <<>>
    /\ UNCHANGED <<config, attempt, last_exception, outcome, sleeps, failed,
                   proc, streams, returned>>

CmdOf(s) == IF s = "continue" THEN cmd_with_c(permissions) ELSE cmd_base(permissions)

\* _run_and_stream up to the gather: create_subprocess_exec either raises
\* OSError or starts the subprocess, then the two drain tasks are created
run_and_stream ==
    /\ pc = "launch"
    /\ launches' = Append(launches, CmdOf(sub))
    /\ returned' = NoReturn
    /\ \E ok \in BOOLEAN :
         IF ok
         THEN /\ proc' = [state |-> "running", returncode |-> -1, signaled |-> FALSE]
              /\ stdoutBuf' = <<>>
              /\ stderrBuf' = <<>>
              /\ stdout_task' = [NoStdoutTask EXCEPT !.st = "running"]
              /\ stderr_task' = [NoStderrTask EXCEPT !.st = "running"]
              /\ consumed' = <<>>
              /\ log' = <<>>
              /\ pc' = "gather"
              /\ UNCHANGED <<attempt, last_exception, outcome, failed>>
         ELSE /\ Throw(OSError)
              /\ UNCHANGED <<proc, streams>>
    /\ UNCHANGED <<config, sleeps, started, sub>>

(* ------------------------ _stream_stdout_handler ----------------------- *)
\* One iteration of "async for line in stream" on a line, given whether the
\* local log_error is bound: what the iteration does next ("continue",
\* "return" or "raise"), the level it logs at ("none" when it logs nothing),
\* and whether log_error is bound afterwards.
\*   line.decode("utf-8") is outside the try: UnicodeDecodeError propagates.
\*   json.loads fails: the JSONDecodeError handler logs a warning with
\*     extra=log_error.
\*   anything else raised by the body: the Exception handler logs an error
\*     with extra=log_error.
\*   log_error is assigned inside the try, after json.loads and
\*     data.get("type"), so a handler reached before any line got that far
\*     raises UnboundLocalError.
Iter(next, level, bound, exc) ==
    [next |-> next, level |-> level, bound |-> bound, exc |-> exc]

\* mutant: a result record does not end the loop
classify_no_return(line) ==
    IF line.type = "system"
    THEN Iter("continue", "info", TRUE, NoExc)
    ELSE IF line.type = "assistant"
    THEN IF line.shape = "bad"
         THEN Iter("continue", "error", TRUE, NoExc)
         ELSE Iter("continue", "info", TRUE, NoExc)
    ELSE IF line.type = "result"
    THEN Iter("continue", "info", TRUE, NoExc)
    ELSE IF line.type # "user"
    THEN Iter("continue", "debug", TRUE, NoExc)
    ELSE Iter("continue", "none", TRUE, NoExc)

\* the if / elif chain on msg_type, for a line that parsed to a dict
classify(line) ==
    IF line.type = "system"
    THEN Iter("continue", "info", TRUE, NoExc)
    ELSE IF line.type = "assistant"
    THEN IF line.shape = "bad"
         THEN Iter("continue", "error", TRUE, NoExc)
         ELSE Iter("continue", "info", TRUE, NoExc)
    ELSE IF line.type = "result"
    THEN Iter("return", "info", TRUE, NoExc)
    ELSE IF line.type # "user"
    THEN Iter("continue", "debug", TRUE, NoExc)
    ELSE Iter("continue", "none", TRUE, NoExc)

stdout_iteration(line, bound) ==
    IF line.kind = "badutf8"
    THEN Iter("raise", "none", bound, UnicodeDecodeError)
    ELSE IF line.kind \in {"nonjson", "blank"}
    THEN IF bound
         THEN Iter("continue", "warning", bound, NoExc)
         ELSE Iter("raise", "none", bound, UnboundLocalError)
    ELSE IF line.kind = "nonobj"
    THEN IF bound
         THEN Iter("continue", "error", bound, NoExc)
         ELSE Iter("raise", "none", bound, UnboundLocalError)
    ELSE classify(line)

\* the handler reads the next line of the stream and runs the loop body
stream_stdout_handler ==
    /\ stdout_task.st = "running"
    /\ stdoutBuf # <<>>
    /\ LET line == Head(stdoutBuf)
           it == stdout_iteration(line, stdout_task.log_error)
       IN  /\ stdoutBuf' = Tail(stdoutBuf)
           /\ consumed' = Append(consumed, line)
           /\ log' = IF it.level = "none" THEN log
                     ELSE Append(log, [level |-> it.level, line |-> Len(consumed) + 1])
           /\ stdout_task' =
                IF it.next = "return"
                THEN [stdout_task EXCEPT !.st = "done", !.result = line,
                                         !.log_error = it.bound]
                ELSE IF it.next = "raise"
                THEN [stdout_task EXCEPT !.st = "failed", !.exc = it.exc]
                ELSE [stdout_task EXCEPT !.log_error = it.bound]
    /\ UNCHANGED <<config, pc, attempt, last_exception, outcome, history,
                   launches, sub, proc, stderrBuf, stderr_task, returned>>

\* end of stream: the loop ends and the handler returns None
stream_stdout_eof ==
    /\ stdout_task.st = "running"
    /\ stdoutBuf = <<>>
    /\ PipesClosed
    /\ stdout_task' = [stdout_task EXCEPT !.st = "done", !.result = None]
    /\ UNCHANGED <<config, pc, attempt, last_exception, outcome, history,
                   launches, sub, proc, stdoutBuf, stderrBuf, stderr_task,
                   consumed, log, returned>>

(* ------------------------ _stream_stderr_handler ----------------------- *)
\* await stream.read(): read(-1) takes whatever the pipe holds until EOF
stream_stderr_read ==
    /\ stderr_task.st = "running"
    /\ stderrBuf # <<>>
    /\ stderr_task' = [stderr_task EXCEPT !.read = stderr_task.read \o stderrBuf]
    /\ stderrBuf' = <<>>
    /\ UNCHANGED <<config, pc, attempt, last_exception, outcome, history,
                   launches, sub, proc, stdoutBuf, stdout_task, consumed, log,
                   returned>>

\* EOF: the text is decoded, stripped, logged line by line and returned
stream_stderr_handler ==
    /\ stderr_task.st = "running"
    /\ stderrBuf = <<>>
    /\ PipesClosed
    /\ stderr_task' = [stderr_task EXCEPT !.st = "done", !.result = stderr_task.read]
    /\ UNCHANGED <<config, pc, attempt, last_exception, outcome, history,
                   launches, sub, proc, stdoutBuf, stderrBuf, stdout_task,
                   consumed, log, returned>>

(* --------------------- _run_and_stream, after launch ------------------- *)
\* await asyncio.gather(stdout_task, stderr_task) returns both results
GatherReturn ==
    /\ pc = "gather"
    /\ stdout_task.st = "done"
    /\ stderr_task.st = "done"
    /\ pc' = "wait"
    /\ UNCHANGED <<config, attempt, last_exception, outcome, history, launches,
                   sub, proc, streams, returned>>

\* gather (return_exceptions=False) raises the exception of a failed task
\* at once; the other task is not cancelled and the process is not awaited
GatherRaise ==
    /\ pc = "gather"
    /\ stdout_task.st = "failed"
    /\ Throw(stdout_task.exc)
    /\ UNCHANGED <<config, sleeps, started, launches, sub, proc, streams,
                   returned>>

\* mutant: _run_and_stream returns without awaiting the exit of the process
WaitReturnNoWait ==
    /\ pc = "wait"
    /\ returned' = [return_code |-> proc.returncode,
                    stderr |-> stderr_task.result,
                    result_obj |-> stdout_task.result]
    /\ pc' = "returned"
    /\ UNCHANGED <<config, attempt, last_exception, outcome, history, launches,
                   sub, proc, streams>>

\* await process.wait() returns; _run_and_stream returns its triple
WaitReturn ==
    /\ pc = "wait"
    /\ proc.state = "exited"
    /\ returned' = [return_code |-> proc.returncode,
                    stderr |-> stderr_task.result,
                    result_obj |-> stdout_task.result]
    /\ pc' = "returned"
    /\ UNCHANGED <<config, attempt, last_exception, outcome, history, launches,
                   sub, proc, streams>>

(* ------------------ _run_claude_instance, after a launch --------------- *)
\* "No prior conversation history found" in stderr
NoHistory(err) == \E i \in 1 .. Len(err) : err[i] = "marker"

\* mutant: the fallback is taken on a zero exit code
FallbackCondExitZero ==
    sub = "continue" /\ returned.return_code = 0 /\ NoHistory(returned.stderr)

FallbackCond ==
    sub = "continue" /\ returned.return_code # 0 /\ NoHistory(returned.stderr)

\* the continuation sub-attempt found no history: run cmd_base at once
Fallback ==
    /\ pc = "returned"
    /\ FallbackCond
    /\ sub' = "fallback"
    /\ pc' = "launch"
    /\ UNCHANGED <<config, attempt, last_exception, outcome, history, launches,
                   proc, streams, returned>>

\* mutant: result_obj.get("is_error", False)
validate_default_false(r) ==
    IF r.return_code # 0
    THEN ClaudeProcessError("CLI tool failed with exit code {}. Stderr: {}",
                            r.return_code, r.stderr, 0, None)
    ELSE IF r.result_obj = None
    THEN ClaudeProcessError("CLI tool finished but produced no final result object.",
                            -1, <<>>, 0, None)
    ELSE IF r.result_obj.is_error = "true" \/ r.result_obj.subtype # "success"
    THEN ClaudeProcessError("Claude returned a non-successful result.",
                            -1, <<>>, 0, r.result_obj)
    ELSE NoExc

\* mutant: the result record is checked before the exit code
validate_result_first(r) ==
    IF r.result_obj = None
    THEN ClaudeProcessError("CLI tool finished but produced no final result object.",
                            -1, <<>>, 0, None)
    ELSE IF r.result_obj.is_error # "false" \/ r.result_obj.subtype # "success"
    THEN ClaudeProcessError("Claude returned a non-successful result.",
                            -1, <<>>, 0, r.result_obj)
    ELSE IF r.return_code # 0
    THEN ClaudeProcessError("CLI tool failed with exit code {}. Stderr: {}",
                            r.return_code, r.stderr, 0, None)
    ELSE NoExc

\* mutant: the "not result_obj" check is missing
validate_no_result_check(r) ==
    IF r.return_code # 0
    THEN ClaudeProcessError("CLI tool failed with exit code {}. Stderr: {}",
                            r.return_code, r.stderr, 0, None)
    ELSE IF r.result_obj.is_error # "false" \/ r.result_obj.subtype # "success"
    THEN ClaudeProcessError("Claude returned a non-successful result.",
                            -1, <<>>, 0, r.result_obj)
    ELSE NoExc

\* mutant: "is_error and subtype != success"
validate_and(r) ==
    IF r.return_code # 0
    THEN ClaudeProcessError("CLI tool failed with exit code {}. Stderr: {}",
                            r.return_code, r.stderr, 0, None)
    ELSE IF r.result_obj = None
    THEN ClaudeProcessError("CLI tool finished but produced no final result object.",
                            -1, <<>>, 0, None)
    ELSE IF r.result_obj.is_error # "false" /\ r.result_obj.subtype # "success"
    THEN ClaudeProcessError("Claude returned a non-successful result.",
                            -1, <<>>, 0, r.result_obj)
    ELSE NoExc

\* the checks on (return_code, stderr, result_obj), in the code's order
validate(r) ==
    IF r.return_code # 0
    THEN ClaudeProcessError("CLI tool failed with exit code {}. Stderr: {}",
                            r.return_code, r.stderr, 0, None)
    ELSE IF r.result_obj = None
    THEN ClaudeProcessError("CLI tool finished but produced no final result object.",
                            -1, <<>>, 0, None)
    ELSE IF r.result_obj.is_error # "false" \/ r.result_obj.subtype # "success"
    THEN ClaudeProcessError("Claude returned a non-successful result.",
                            -1, <<>>, 0, r.result_obj)
    ELSE NoExc

\* mutant: the subtype is returned
answer_subtype(obj) == obj.subtype

\* result_obj.get("result", "")
answer(obj) == IF obj.result = "absent" THEN "" ELSE obj.result

Validate ==
    /\ pc = "returned"
    /\ ~FallbackCond
    /\ LET e == validate(returned)
       IN  IF e # NoExc
           THEN Throw(e)
           ELSE /\ pc' = "done"
                /\ outcome' = [kind |-> "returned", value |-> answer(returned.result_obj),
                               exc |-> NoExc, cause |-> NoExc]
                /\ UNCHANGED <<attempt, last_exception, failed>>
    /\ UNCHANGED <<config, sleeps, started, launches, sub, proc, streams,
                   returned>>

(* ----------------------------- cancellation ---------------------------- *)
CancelTask(t) == IF t.st = "running" THEN [t EXCEPT !.st = "cancelled"] ELSE t

\* The task running run_claude_code is cancelled at a suspension point.
\* Cancelling the gather cancels its two children; nothing in the code
\* catches CancelledError, so nothing is done about the subprocess.
Cancel ==
    /\ pc \in {"sleep", "gather", "wait"}
    /\ stdout_task' = IF pc = "gather" THEN CancelTask(stdout_task) ELSE stdout_task
    /\ stderr_task' = IF pc = "gather" THEN CancelTask(stderr_task) ELSE stderr_task
    /\ Raise(CancelledError, NoExc)
    /\ UNCHANGED <<config, attempt, last_exception, history, launches, sub,
                   proc, stdoutBuf, stderrBuf, consumed, log, returned>>

(* ----------------------------- the subprocess -------------------------- *)
ProcWriteStdout(lines, max) ==
    /\ proc.state = "running"
    /\ Len(stdoutBuf) < PipeCap
    /\ Len(consumed) + Len(stdoutBuf) < max
    /\ \E l \in lines : stdoutBuf' = Append(stdoutBuf, l)
    /\ UNCHANGED <<config, pc, attempt, last_exception, outcome, history,
                   launches, sub, proc, stderrBuf, stdout_task, stderr_task,
                   consumed, log, returned>>

ProcWriteStderr ==
    /\ proc.state = "running"
    /\ Len(stderrBuf) < PipeCap
    /\ Len(stderr_task.read) + Len(stderrBuf) < MaxErrChunks
    /\ \E c \in ErrChunks : stderrBuf' = Append(stderrBuf, c)
    /\ UNCHANGED <<config, pc, attempt, last_exception, outcome, history,
                   launches, sub, proc, stdoutBuf, stdout_task, stderr_task,
                   consumed, log, returned>>

\* the subprocess closes its ends of both pipes and keeps running
ProcClose ==
    /\ proc.state = "running"
    /\ proc' = [proc EXCEPT !.state = "closed"]
    /\ UNCHANGED <<config, pc, attempt, last_exception, outcome, history,
                   launches, sub, streams, returned>>

\* the subprocess exits, which closes its ends of both pipes
ProcExit ==
    /\ Alive
    /\ \E code \in {0, 1} :
         proc' = [proc EXCEPT !.state = "exited", !.returncode = code]
    /\ UNCHANGED <<config, pc, attempt, last_exception, outcome, history,
                   launches, sub, streams, returned>>

(* ---------------------------- specifications --------------------------- *)
Core ==
    \/ run_claude_code
    \/ LoopNext
    \/ SleepReturn
    \/ run_claude_instance
    \/ run_and_stream
    \/ stream_stdout_handler
    \/ stream_stdout_eof
    \/ stream_stderr_read
    \/ stream_stderr_handler
    \/ GatherReturn
    \/ GatherRaise
    \/ WaitReturn
    \/ Fallback
    \/ Validate
    \/ Cancel
    \/ ProcWriteStderr

Program == Core \/ ProcClose \/ ProcExit

Next == Program \/ ProcWriteStdout(RetryLines, MaxLines)

Spec == Init /\ [][Next]_vars

\* one attempt, every kind of stdout line
InitStream == InitWith({1}, {"read_only"}, {TRUE})

NextStream == Program \/ ProcWriteStdout(StreamLines, MaxLinesStream)

SpecStream == InitStream /\ [][NextStream]_vars

\* the validation of result records: one retry, continuation requested
InitResult == InitWith({1}, {"read_only"}, {TRUE})

NextResult == Program \/ ProcWriteStdout(ResultLines, MaxLines)

SpecResult == InitResult /\ [][NextResult]_vars

\* Progress of a sub-attempt.  The subprocess has MaxLinesLive lines to
\* write to stdout; a write blocks while the pipe is full, and the
\* subprocess closes its pipes and exits only once it has written them all.
WroteAll == Len(consumed) + Len(stdoutBuf) = MaxLinesLive

ProcCloseDone == WroteAll /\ ProcClose

ProcExitDone == WroteAll /\ ProcExit

\* the steps of the task that runs run_claude_code, cancellation excluded
MainTask ==
    \/ run_claude_code
    \/ LoopNext
    \/ SleepReturn
    \/ run_claude_instance
    \/ run_and_stream
    \/ GatherReturn
    \/ GatherRaise
    \/ WaitReturn
    \/ Fallback
    \/ Validate

StdoutTask == stream_stdout_handler \/ stream_stdout_eof

StderrTask == stream_stderr_read \/ stream_stderr_handler

SubprocessLive ==
    \/ ProcWriteStdout(LiveLines, MaxLinesLive)
    \/ ProcCloseDone
    \/ ProcExitDone

InitLive == InitWith({1}, {"read_only"}, {TRUE})

NextLive == Core \/ SubprocessLive

\* the event loop runs every task that can run and the operating system
\* runs the subprocess; nobody has to cancel the run, and the subprocess
\* need not write to stderr
FairLive ==
    /\ WF_vars(MainTask)
    /\ WF_vars(StdoutTask)
    /\ WF_vars(StderrTask)
    /\ WF_vars(SubprocessLive)

SpecLive == InitLive /\ [][NextLive]_vars /\ FairLive

(* ------------------------------ properties ----------------------------- *)
\* the retry budget of a runner constructed with retries = n
Budget == IF retries < 0 THEN 0 ELSE retries

\* the run is over and every attempt it started failed with a retryable error
EveryAttemptFailed ==
    /\ pc = "done"
    /\ outcome.kind = "raised"
    /\ outcome.exc.etype # "CancelledError"
    /\ failed = started

AggregateMessage == "All {} attempts to run Claude failed."

\* C1: sleep k (of duration 2^k) starts after attempt k failed and ends
\* before attempt k+1 starts, so there is none before the first attempt; and
\* when every attempt fails with a retryable error there are exactly n+1
\* attempts and exactly n sleeps, 2, 4, ..., 2^n, none after the last attempt.
C1_Backoff ==
    /\ Len(sleeps) <= failed
    /\ failed <= started
    /\ started <= Len(sleeps) + 1
    /\ \A i \in 1 .. Len(sleeps) : sleeps[i] = 2 ^ i
    /\ pc = "sleep" => (started = Len(sleeps) /\ failed = Len(sleeps))
    /\ EveryAttemptFailed =>
         (started = Budget + 1 /\ failed = Budget + 1 /\ Len(sleeps) = Budget)

C1_Witness ==
    /\ EveryAttemptFailed
    /\ retries = 2
    /\ sleeps = <<2, 4>>
    /\ started = 3

MarkerIn(err) == "marker" \in {err[i] : i \in 1 .. Len(err)}

ContinuationFoundNoHistory ==
    /\ pc = "returned"
    /\ sub = "continue"
    /\ returned.return_code # 0
    /\ MarkerIn(returned.stderr)

\* C2: when the continuation sub-attempt returns a non-zero exit code and
\* the no-history marker, the next thing the run does is launch the command
\* without -c, in the same attempt: no sleep, no new attempt, the attempt
\* counter unchanged; that launch is the second and last of the attempt, and
\* the attempt counter always equals the number of failed attempts.
C2_FallbackInAttempt ==
    /\ [](attempt = failed /\ Len(launches) <= 2)
    /\ [][/\ ContinuationFoundNoHistory =>
               /\ pc' = "launch" /\ sub' = "fallback"
               /\ UNCHANGED <<attempt, sleeps, started, failed, launches>>
          /\ (pc = "launch" /\ sub = "fallback") =>
               /\ Len(launches') = 2
               /\ launches'[1][2] = "-c"
               /\ launches'[2][2] # "-c"
               /\ UNCHANGED <<sleeps, started>>
          /\ (pc = "returned" /\ sub = "fallback") => pc' \in {"loop", "done"}
         ]_vars

C2_Witness ==
    /\ sub = "fallback"
    /\ pc = "gather"
    /\ Len(launches) = 2
    /\ attempt = 0
    /\ sleeps = <<>>

WellFormed(l) == l.kind = "obj" /\ l.shape = "ok"
IsResult(l) == l.kind = "obj" /\ l.type = "result"
AllWellFormed(ls) == \A i \in 1 .. Len(ls) : WellFormed(ls[i])
ResultIndexes(ls) == {i \in 1 .. Len(ls) : IsResult(ls[i])}
FirstResult(ls) == CHOOSE i \in ResultIndexes(ls) : \A j \in ResultIndexes(ls) : i <= j

\* C3: while the lines read from stdout are well formed, the handler has
\* returned iff it has read a result record; that record is the first one of
\* the stream and the last line read, it is what the handler and
\* _run_and_stream return, and no log event is about a later line; a handler
\* that returned without reading a result record returned None.
C3_FirstResult ==
    AllWellFormed(consumed) =>
      IF ResultIndexes(consumed) # {}
      THEN LET k == FirstResult(consumed)
           IN  /\ k = Len(consumed)
               /\ stdout_task.st = "done"
               /\ stdout_task.result = consumed[k]
               /\ \A i \in 1 .. Len(log) : log[i].line <= k
               /\ returned # NoReturn => returned.result_obj = consumed[k]
      ELSE /\ stdout_task.st = "done" => stdout_task.result = None
           /\ returned # NoReturn => returned.result_obj = None

C3_Witness ==
    /\ consumed = <<Result("false", "success", "A")>>
    /\ stdoutBuf = <<Result("false", "success", "B")>>
    /\ returned.result_obj = Result("false", "success", "A")
    /\ log = <<[level |-> "info", line |-> 1]>>

Noise(l) == l.kind \in {"nonjson", "nonobj"} \/ (l.kind = "obj" /\ l.shape = "bad")
NoiseLevel(l) == IF l.kind = "nonjson" THEN "warning" ELSE "error"

\* C4: every non-JSON or unexpected-shape line the handler has read is
\* logged (warning, resp. error) and reading it does not make the handler
\* raise.
C4_NoiseSkipped ==
    \A i \in 1 .. Len(consumed) :
        Noise(consumed[i]) =>
            /\ \E j \in 1 .. Len(log) :
                 log[j].line = i /\ log[j].level = NoiseLevel(consumed[i])
            /\ i = Len(consumed) => stdout_task.st # "failed"

NoFinalResultMessage == "CLI tool finished but produced no final result object."

\* the sub-attempt whose triple is in "returned" has been validated
Validated == returned # NoReturn /\ pc # "returned"

\* C5: once a sub-attempt that returned exit code 0 and no result record has
\* been validated, its attempt has failed with the "no final result"
\* ClaudeProcessError and the run has not returned an answer.
C5_NoResultFails ==
    (Validated /\ returned.return_code = 0 /\ returned.result_obj = None) =>
        /\ last_exception.etype = "ClaudeProcessError"
        /\ last_exception.message = NoFinalResultMessage
        /\ last_exception.at = failed
        /\ outcome.kind # "returned"

C5_Witness ==
    /\ pc = "loop"
    /\ returned.return_code = 0
    /\ returned.result_obj = None
    /\ last_exception.message = NoFinalResultMessage

NonSuccess(obj) == obj.is_error = "true" \/ obj.subtype # "success"

\* C6: once a sub-attempt that returned exit code 0 and a result record with
\* is_error true or a subtype other than "success" has been validated, its
\* attempt has failed with a ClaudeProcessError whose result_data is that
\* record; the failure counts as a failed attempt, and the run ends after it
\* only by exhaustion of the budget (or by cancellation).
C6_NonSuccessFails ==
    (/\ Validated
     /\ returned.return_code = 0
     /\ IsResult(returned.result_obj)
     /\ NonSuccess(returned.result_obj)) =>
        /\ last_exception.etype = "ClaudeProcessError"
        /\ last_exception.result_data = returned.result_obj
        /\ last_exception.at = failed
        /\ attempt = failed
        /\ outcome.kind # "returned"
        /\ pc = "done" =>
             \/ outcome.exc.etype = "CancelledError"
             \/ /\ outcome.exc.message = AggregateMessage
                /\ failed = Budget + 1

C6_Witness ==
    /\ pc = "sleep"
    /\ returned.return_code = 0
    /\ returned.result_obj.is_error = "false"
    /\ returned.result_obj.subtype = "error_max_turns"
    /\ last_exception.result_data = returned.result_obj

\* C7: when every attempt has failed with a retryable error, what the run
\* raises is a ClaudeProcessError with the aggregate message for retries + 1
\* attempts, whose cause is the retryable error raised by the last attempt.
C7_AggregateCause ==
    EveryAttemptFailed =>
        /\ outcome.exc.etype = "ClaudeProcessError"
        /\ outcome.exc.message = AggregateMessage
        /\ outcome.exc.n = Budget + 1
        /\ outcome.cause.etype \in {"ClaudeProcessError", "OSError"}
        /\ outcome.cause.at = Budget + 1
        /\ outcome.cause = last_exception

C7_Witness ==
    /\ EveryAttemptFailed
    /\ retries = 2
    /\ outcome.cause.at = 3
    /\ outcome.cause.etype = "OSError"

NotRetried == {"UnboundLocalError", "UnicodeDecodeError"}

\* C8: when a drain task has failed with an exception that is neither a
\* ClaudeProcessError nor an OSError, the next step of the run raises it (the
\* only other step is the cancellation of the run); a run that raised such an
\* exception raised it as the task raised it, with no cause, in the attempt
\* that was running, took no sleep and started no attempt after it, and does
\* nothing more.
C8_NoRetry ==
    /\ [](outcome.exc.etype \in NotRetried =>
            /\ pc = "done"
            /\ outcome.kind = "raised"
            /\ outcome.exc = RaisedAt(stdout_task.exc, started)
            /\ outcome.cause = NoExc
            /\ failed = started - 1
            /\ Len(sleeps) = started - 1)
    /\ [][/\ (/\ pc = "gather"
              /\ stdout_task.st = "failed"
              /\ stdout_task.exc.etype \in NotRetried
              /\ pc' # pc) =>
                /\ pc' = "done"
                /\ outcome'.exc.etype \in {stdout_task.exc.etype, "CancelledError"}
          /\ outcome.exc.etype \in NotRetried =>
                UNCHANGED <<pc, outcome, attempt, sleeps, started, failed, launches>>
         ]_vars

C8_Witness ==
    /\ outcome.exc.etype = "UnboundLocalError"
    /\ started = 2
    /\ self_retries = 2

\* C9: a run that returned did so in the attempt whose sub-attempt returned
\* exit code 0 and a successful result record, it returned that record's
\* result field, every attempt before that one failed, and nothing happens
\* after the return.
C9_FirstSuccess ==
    /\ [](outcome.kind = "returned" =>
            /\ pc = "done"
            /\ returned.return_code = 0
            /\ IsResult(returned.result_obj)
            /\ ~NonSuccess(returned.result_obj)
            /\ outcome.value = returned.result_obj.result
            /\ failed = started - 1
            /\ Len(sleeps) = started - 1
            /\ proc.state = "exited")
    /\ [][outcome.kind = "returned" => FALSE]_vars

C9_Witness ==
    /\ outcome.kind = "returned"
    /\ outcome.value = "A"
    /\ started = 2
    /\ sub = "fallback"

\* C10: a cancelled run leaves no subprocess running without having
\* signalled it, and leaves neither drain task running.
C10_CancelTerminates ==
    (pc = "done" /\ outcome.exc.etype = "CancelledError") =>
        /\ Alive => proc.signaled
        /\ stdout_task.st # "running"
        /\ stderr_task.st # "running"

BypassFlag == "--dangerously-skip-permissions"
LastArg(cmd) == cmd[Len(cmd)]

\* C11: every argument vector handed to exec in an attempt (first attempt
\* or retry; continuation, fallback or plain sub-attempt) ends with the
\* permission-bypass flag iff the permission mode is full_access.
C11_BypassFlagLast ==
    \A i \in 1 .. Len(launches) :
        (LastArg(launches[i]) = BypassFlag) <=> (permissions = "full_access")

C11_Witness ==
    /\ permissions = "full_access"
    /\ attempt = 1
    /\ sub = "fallback"
    /\ Len(launches) = 2
    /\ launches[1][2] = "-c"
    /\ LastArg(launches[1]) = BypassFlag
    /\ LastArg(launches[2]) = BypassFlag

ExitCodeMessage == "CLI tool failed with exit code {}. Stderr: {}"

\* the triple in `returned` is the one the attempt's checks were applied to
\* (and not a continuation triple that the fallback replaced)
ValidatedTriple == Validated /\ ~(pc = "launch" /\ sub = "fallback")

\* C15: once a sub-attempt that returned a non-zero exit code has been
\* validated, its attempt has failed with the exit-code ClaudeProcessError,
\* which carries that exit code and the collected stderr text and an empty
\* result_data, whatever result record was collected on stdout; the run has
\* not returned an answer.
C15_ExitCodeFirst ==
    (ValidatedTriple /\ returned.return_code # 0) =>
        /\ last_exception =
              RaisedAt(ClaudeProcessError(ExitCodeMessage, returned.return_code,
                                          returned.stderr, 0, None), failed)
        /\ attempt = failed
        /\ outcome.kind # "returned"

C15_Witness ==
    /\ pc = "sleep"
    /\ returned.return_code = 1
    /\ returned.result_obj = Result("false", "success", "A")
    /\ returned.stderr = <<"other">>
    /\ last_exception.message = ExitCodeMessage
    /\ last_exception.result_data = None

\* C18: the run holds one subprocess at a time, and whenever it is between
\* sub-attempts (about to take the fallback, to validate, to sleep, sleeping,
\* or about to launch), or has ended otherwise than by cancellation or by a
\* non-retryable exception, the subprocess it launched last has exited and
\* neither drain task is running.
C18_OneSubprocess ==
    (\/ pc \in {"idle", "loop", "sleep", "instance", "launch", "returned"}
     \/ /\ pc = "done"
        /\ outcome.exc.etype \notin NotRetried \cup {"CancelledError"}) =>
        /\ ~Alive
        /\ stdout_task.st # "running"
        /\ stderr_task.st # "running"

C18_Witness ==
    /\ pc = "sleep"
    /\ sub = "fallback"
    /\ Len(launches) = 2
    /\ proc.state = "exited"
    /\ stdout_task.st = "done"
    /\ stderr_task.st = "done"

HasFlag(cmd) == \E i \in 1 .. Len(cmd) : cmd[i] = "-c"

\* the last sub-attempt of the current attempt has returned and has been
\* validated, and no later attempt has begun
AttemptOver ==
    /\ returned # NoReturn
    /\ pc \in {"loop", "sleep", "instance", "done"}

\* what the subprocess launched last and its two drain tasks produced
LastTriple ==
    [return_code |-> proc.returncode, stderr |-> stderr_task.result,
     result_obj |-> stdout_task.result]

\* C19: with continue_conversation, the first launch of every attempt, the
\* first or a later one, carries -c and a second launch of the attempt does
\* not; an attempt launches at most two subprocesses and a run starts at most
\* retries + 1 attempts, hence launches at most 2 (retries + 1) subprocesses;
\* an attempt whose last launch exited non-zero with the no-history marker
\* made exactly the two launches, with -c then without, so when every launch
\* does so each of the retries + 1 attempts made exactly two; and when the
\* fallback ran, the triple the attempt was decided on is the one of the
\* fallback's subprocess.
C19_ContinuationEveryAttempt ==
    /\ Len(launches) <= 2
    /\ started <= Budget + 1
    /\ (continue_conversation /\ Len(launches) >= 1) =>
          (launches[1] = cmd_with_c(permissions) /\ launches[1][2] = "-c")
    /\ Len(launches) = 2 =>
          /\ continue_conversation
          /\ launches[2] = cmd_base(permissions)
          /\ ~HasFlag(launches[2])
    /\ (/\ AttemptOver
        /\ continue_conversation
        /\ returned.return_code # 0
        /\ MarkerIn(returned.stderr)) => Len(launches) = 2
    /\ EveryAttemptFailed => started = Budget + 1
    /\ (AttemptOver /\ Len(launches) = 2) =>
          /\ returned = LastTriple
          /\ validate(returned) = NoExc =>
                (outcome.kind = "returned" /\ outcome.value = answer(returned.result_obj))
          /\ validate(returned) # NoExc =>
                last_exception = RaisedAt(validate(returned), failed)

\* the second attempt starts with -c after the first one took the fallback
\* and failed on the fallback's non-zero exit
C19_Witness ==
    /\ continue_conversation
    /\ started = 2
    /\ pc = "gather"
    /\ launches = <<cmd_with_c(permissions)>>
    /\ last_exception.at = 1
    /\ last_exception.return_code = 1
    /\ MarkerIn(last_exception.stderr)

\* a sub-attempt's triple is a failure: non-zero exit, or exit 0 with no
\* result record, or exit 0 with a non-success result record
FailedTriple(r) ==
    \/ r.return_code # 0
    \/ r.result_obj = None
    \/ NonSuccess(r.result_obj)

\* C14: with continue_conversation, an attempt that ended on its
\* continuation sub-attempt (no fallback was run) is one whose continuation
\* sub-attempt did not both fail and report the no-history marker; and a
\* fallback is about to be launched only after a continuation sub-attempt
\* that failed and reported the marker.
C14_FallbackIffFailedWithMarker ==
    /\ (AttemptOver /\ sub = "continue") =>
          ~(FailedTriple(returned) /\ MarkerIn(returned.stderr))
    /\ (pc = "launch" /\ sub = "fallback") =>
          (FailedTriple(returned) /\ MarkerIn(returned.stderr))

\* C13: once the gather of the two drain tasks has returned, nothing the
\* subprocess wrote is left unread on its stdout pipe or on its stderr pipe.
C13_BothDrained ==
    pc \in {"wait", "returned"} => (stdoutBuf = <<>> /\ stderrBuf = <<>>)

LoggedAbout(i) == \E j \in 1 .. Len(log) : log[j].line = i

\* C16: a stdout line that is empty after stripping leaves no log event at
\* any level and reading it does not make the handler raise, wherever the
\* line is in the stream.
C16_BlankSkipped ==
    \A i \in 1 .. Len(consumed) :
        consumed[i].kind = "blank" =>
            /\ ~LoggedAbout(i)
            /\ i = Len(consumed) => stdout_task.st # "failed"

\* C17: reading a stdout line that is not valid UTF-8 does not end the
\* handler: it goes on to the lines after it.
C17_BadUtf8Skipped ==
    \A i \in 1 .. Len(consumed) :
        (consumed[i].kind = "badutf8" /\ i = Len(consumed)) =>
            stdout_task.st = "running"

\* the four conditions of a successful attempt
Succeeds(r) ==
    /\ r.return_code = 0
    /\ IsResult(r.result_obj)
    /\ r.result_obj.is_error = "false"
    /\ r.result_obj.subtype = "success"

\* C20: a run has returned an answer only on a validated triple, and a
\* validated triple made the run return iff its exit code is 0, it holds a
\* result record, the record's is_error field is present and false and its
\* subtype is "success"; the answer is then the record's result field;
\* otherwise the attempt failed with a ClaudeProcessError, which for a
\* record without is_error (exit code 0) carries that record as result_data.
C20_SuccessIff ==
    /\ outcome.kind = "returned" => ValidatedTriple
    /\ ValidatedTriple =>
          /\ (outcome.kind = "returned") <=> Succeeds(returned)
          /\ Succeeds(returned) =>
                (pc = "done" /\ outcome.value = returned.result_obj.result)
          /\ ~Succeeds(returned) =>
                /\ last_exception.etype = "ClaudeProcessError"
                /\ last_exception.at = failed
                /\ attempt = failed
          /\ (/\ returned.return_code = 0
              /\ IsResult(returned.result_obj)
              /\ returned.result_obj.is_error = "absent") =>
                last_exception.result_data = returned.result_obj

C20_Witness ==
    /\ pc = "sleep"
    /\ returned.return_code = 0
    /\ returned.result_obj = Result("absent", "success", "A")
    /\ last_exception.result_data = returned.result_obj
    /\ failed = 1

\* C12: a sub-attempt whose subprocess exits once its writes are through
\* does not wait for its output for ever: the gather of the two drain tasks
\* eventually returns or raises (or the run is cancelled).  Where it does
\* not, the subprocess still has a line to write (WroteAll is false) and
\* the pipe is full: the handler returned at the result record and nothing
\* reads stdout any more.
C12_SubAttemptCompletes == (pc = "gather") ~> (pc # "gather")

====
